---- MODULE Spec2Model ----
(***************************************************************************)
(* Evidence pipeline of gemara-mcp: format parsers, keyword schema mapper, *)
(* the Pipeline that selects a parser and maps its chunks, and the         *)
(* parse_governance_document tool in front of it.                          *)
(*                                                                         *)
(* Documents are real strings (TLC evaluates Len, \o and SubSeq on them).  *)
(* Confidences are fixed-point numbers in units of 1/10000.                *)
(***************************************************************************)
EXTENDS Integers, Sequences, FiniteSets, TLC

(***************************************************************************)
(* Go's strings package, as far as the code uses it.                       *)
(***************************************************************************)
Char(s, i) == SubSeq(s, i, i)

HasPrefix(s, p) == Len(s) >= Len(p) /\ SubSeq(s, 1, Len(p)) = p

Contains(s, sub) ==
    \E i \in 1..(Len(s) - Len(sub) + 1) : SubSeq(s, i, i + Len(sub) - 1) = sub

\* strings.Index: the index of the first occurrence of sub in s, 0 when there is none.
Index(s, sub) ==
    IF ~Contains(s, sub) THEN 0
    ELSE CHOOSE i \in 1..(Len(s) - Len(sub) + 1) :
            /\ SubSeq(s, i, i + Len(sub) - 1) = sub
            /\ \A j \in 1..(i - 1) : SubSeq(s, j, j + Len(sub) - 1) # sub

IsSpace(c) == c \in {" ", "\n", "\t", "\r"}

TrimSpace(s) ==
    LET keep == {i \in 1..Len(s) : ~IsSpace(Char(s, i))}
    IN  IF keep = {} THEN ""
        ELSE LET lo == CHOOSE i \in keep : \A j \in keep : i <= j
                 hi == CHOOSE i \in keep : \A j \in keep : i >= j
             IN  SubSeq(s, lo, hi)

\* strings.TrimLeft(s, cutset) for a one-character cutset.
TrimLeft(s, c) ==
    LET keep == {i \in 1..Len(s) : Char(s, i) # c}
    IN  IF keep = {} THEN ""
        ELSE SubSeq(s, CHOOSE i \in keep : \A j \in keep : i <= j, Len(s))

RECURSIVE Split(_, _)
Split(s, sep) ==
    LET i == Index(s, sep)
    IN  IF i = 0 THEN <<s>>
        ELSE <<SubSeq(s, 1, i - 1)>> \o Split(SubSeq(s, i + Len(sep), Len(s)), sep)

\* strings.SplitN(s, sep, 2)[0]
FirstOfSplit2(s, sep) ==
    LET i == Index(s, sep) IN IF i = 0 THEN s ELSE SubSeq(s, 1, i - 1)

RECURSIVE Join(_, _)
Join(parts, sep) ==
    IF parts = <<>> THEN ""
    ELSE IF Len(parts) = 1 THEN parts[1]
    ELSE parts[1] \o sep \o Join(Tail(parts), sep)

\* unicode.ToLower on the ASCII letters.
LowerOf ==
    [A |-> "a", B |-> "b", C |-> "c", D |-> "d", E |-> "e", F |-> "f", G |-> "g",
     H |-> "h", I |-> "i", J |-> "j", K |-> "k", L |-> "l", M |-> "m", N |-> "n",
     O |-> "o", P |-> "p", Q |-> "q", R |-> "r", S |-> "s", T |-> "t", U |-> "u",
     V |-> "v", W |-> "w", X |-> "x", Y |-> "y", Z |-> "z"]

LowerChar(c) == IF c \in DOMAIN LowerOf THEN LowerOf[c] ELSE c

\* strings.ToLower, character by character (halving keeps the evaluation shallow).
RECURSIVE ToLower(_)
ToLower(s) ==
    IF Len(s) = 0 THEN ""
    ELSE IF Len(s) = 1 THEN LowerChar(s)
    ELSE ToLower(SubSeq(s, 1, Len(s) \div 2))
            \o ToLower(SubSeq(s, (Len(s) \div 2) + 1, Len(s)))

EqualFold(a, b) == ToLower(a) = ToLower(b)

\* Byte order of the characters that occur in mapping keys (sort order of Go strings).
KeyAlphabet == "ABCDEFGHIJKLMNOPQRSTUVWXYZabcdefghijklmnopqrstuvwxyz"

CharRank(c) ==
    IF \E i \in 1..Len(KeyAlphabet) : Char(KeyAlphabet, i) = c
    THEN CHOOSE i \in 1..Len(KeyAlphabet) : Char(KeyAlphabet, i) = c
    ELSE 0

RECURSIVE StrLess(_, _)
StrLess(a, b) ==
    IF b = "" THEN FALSE
    ELSE IF a = "" THEN TRUE
    ELSE IF Char(a, 1) = Char(b, 1)
         THEN StrLess(SubSeq(a, 2, Len(a)), SubSeq(b, 2, Len(b)))
         ELSE CharRank(Char(a, 1)) < CharRank(Char(b, 1))

(***************************************************************************)
(* errors: an error value is the chain of its messages, outermost first    *)
(* (err[1] is Error(), Tail(err) is what errors.Unwrap returns); nil is    *)
(* the empty chain.                                                        *)
(***************************************************************************)
NilError == <<>>

\* fmt.Errorf(prefix + "%w", cause)
Wrap(prefix, cause) == <<prefix \o cause[1]>> \o cause

\* fmt's %q of a string without characters that need escaping
Quote(s) == "\"" \o s \o "\""

(***************************************************************************)
(* yaml.Unmarshal of github.com/goccy/go-yaml, for the block-style subset  *)
(* the documents of this model are written in: comment and blank lines,    *)
(* top-level `key: scalar` lines, and `key:` followed by indented          *)
(* `key: scalar` lines. A leading `---` is the document start, a later one *)
(* ends the first document. Anything else fails to decode into a mapping.  *)
(* A decoded document is a sequence of entries in document order:          *)
(* [key, kind ("scalar" | "map" | "null"), val (scalar), sub (entries)].   *)
(***************************************************************************)
YAMLSyntaxError == <<"yaml: cannot decode document into a mapping">>

\* A block mapping line `key: rest`: the key ends at the first colon that a
\* space or the end of the line follows.
KeyEnd(line) == Index(line \o " ", ": ")
IsPair(line) == KeyEnd(line) > 1
KeyOf(line) == SubSeq(line, 1, KeyEnd(line) - 1)
RestOf(line) == TrimSpace(SubSeq(line, KeyEnd(line) + 1, Len(line)))
UnclosedFlow(rest) == HasPrefix(rest, "[") /\ Char(rest, Len(rest)) # "]"

RECURSIVE DecodeLines(_, _)
DecodeLines(lines, acc) ==
    IF lines = <<>> THEN [err |-> NilError, entries |-> acc]
    ELSE
      LET l == Head(lines)
          t == TrimSpace(l)
          bad == [err |-> YAMLSyntaxError, entries |-> <<>>]
          key == KeyOf(t)
          val == RestOf(t)
      IN
      IF t = "" \/ HasPrefix(t, "#") THEN DecodeLines(Tail(lines), acc)
      ELSE IF t = "---" /\ ~HasPrefix(l, " ")
        THEN IF acc = <<>> THEN DecodeLines(Tail(lines), acc)
             ELSE [err |-> NilError, entries |-> acc]
      ELSE IF ~IsPair(t) THEN bad
      ELSE IF HasPrefix(l, " ")
        THEN IF acc = <<>> \/ acc[Len(acc)].kind = "scalar" \/ val = ""
                \/ UnclosedFlow(val)
                \/ \E i \in 1..Len(acc[Len(acc)].sub) : acc[Len(acc)].sub[i].key = key
             THEN bad
             ELSE LET last == acc[Len(acc)]
                      child == [key |-> key, val |-> val]
                  IN  DecodeLines(Tail(lines),
                        [acc EXCEPT ![Len(acc)] =
                            [last EXCEPT !.kind = "map", !.sub = last.sub \o <<child>>]])
      ELSE IF \E i \in 1..Len(acc) : acc[i].key = key THEN bad
      ELSE IF UnclosedFlow(val) THEN bad
      ELSE DecodeLines(Tail(lines),
             Append(acc, [key |-> key,
                          kind |-> IF val = "" THEN "null" ELSE "scalar",
                          val |-> val,
                          sub |-> <<>>]))

Unmarshal(content) == DecodeLines(Split(content, "\n"), <<>>)

\* The entries of a mapping in the order yaml.Marshal writes them: sorted by key.
RECURSIVE SortByKey(_)
SortByKey(entries) ==
    IF entries = <<>> THEN <<>>
    ELSE LET m == CHOOSE i \in 1..Len(entries) :
                    \A j \in 1..Len(entries) : ~StrLess(entries[j].key, entries[i].key)
             rest == [k \in 1..(Len(entries) - 1) |->
                        IF k < m THEN entries[k] ELSE entries[k + 1]]
         IN  <<entries[m]>> \o SortByKey(rest)

RECURSIVE MarshalPairs(_)
MarshalPairs(pairs) ==
    IF pairs = <<>> THEN ""
    ELSE pairs[1].key \o ": " \o pairs[1].val \o "\n" \o MarshalPairs(Tail(pairs))

\* yaml.Marshal of a decoded value (its output ends with a newline).
Marshal(e) ==
    CASE e.kind = "scalar" -> e.val \o "\n"
      [] e.kind = "null"   -> "null\n"
      [] e.kind = "map"    -> MarshalPairs(SortByKey(e.sub))

Digits == "0123456789"

\* fmt's %d of a non-negative int
RECURSIVE Itoa(_)
Itoa(n) ==
    IF n < 10 THEN Char(Digits, n + 1)
    ELSE Itoa(n \div 10) \o Char(Digits, (n % 10) + 1)

(***************************************************************************)
(* Confidence values, in units of 1/10000.                                 *)
(***************************************************************************)
MarkdownConfidence == 8500
YAMLConfidence == 8000
IdentityConfidence == 9000
SpecKeyConfidence == 8800
DockerfileConfidence == 8000
mappingConfidence == 7500
ConfidenceOne == 100 * 100

EvidenceChunk(text, sourceID, sectionPath, confidence) ==
    [Text |-> text, SourceID |-> sourceID, SectionPath |-> sectionPath,
     Confidence |-> confidence]

(***************************************************************************)
(* MarkdownParser                                                          *)
(***************************************************************************)
MarkdownCanHandle(source) ==
    IF EqualFold(source.Format, "markdown") \/ EqualFold(source.Format, "md")
    THEN TRUE
    ELSE LET content == TrimSpace(source.Content)
         IN  HasPrefix(content, "#") \/ Contains(content, "\n#")

\* Mutant: flush emits a chunk for a section without text too.
MarkdownFlushBlank(st, sourceID) ==
    Append(st.chunks,
           EvidenceChunk(TrimSpace(Join(st.currentLines, "\n")), sourceID,
                         IF st.currentHeading = "" THEN "preamble" ELSE st.currentHeading,
                         MarkdownConfidence))

\* The closure flush of MarkdownParser.Parse: st is (chunks, currentHeading, currentLines).
MarkdownFlush(st, sourceID) ==
    LET text == TrimSpace(Join(st.currentLines, "\n"))
    IN  IF text = "" THEN st.chunks
        ELSE Append(st.chunks,
                    EvidenceChunk(text, sourceID,
                                  IF st.currentHeading = "" THEN "preamble"
                                  ELSE st.currentHeading,
                                  MarkdownConfidence))

RECURSIVE MarkdownLoop(_, _, _)
MarkdownLoop(lines, st, sourceID) ==
    IF lines = <<>> THEN MarkdownFlush(st, sourceID)
    ELSE IF HasPrefix(Head(lines), "#")
         THEN MarkdownLoop(Tail(lines),
                           [chunks |-> MarkdownFlush(st, sourceID),
                            currentHeading |-> TrimSpace(TrimLeft(Head(lines), "#")),
                            currentLines |-> <<>>],
                           sourceID)
         ELSE MarkdownLoop(Tail(lines),
                           [st EXCEPT !.currentLines = Append(@, Head(lines))],
                           sourceID)

MarkdownParse(source) ==
    {[chunks |-> MarkdownLoop(Split(source.Content, "\n"),
                              [chunks |-> <<>>, currentHeading |-> "",
                               currentLines |-> <<>>],
                              source.ID),
      err |-> NilError]}

(***************************************************************************)
(* YAMLParser                                                              *)
(***************************************************************************)
YAMLCanHandle(source) ==
    IF ToLower(source.Format) \in {"yaml", "yml", "json"} THEN TRUE
    ELSE LET content == TrimSpace(source.Content)
         IN  IF HasPrefix(content, "{") THEN TRUE
             ELSE /\ Len(content) > 0
                  /\ Contains(FirstOfSplit2(content, "\n"), ":")
                  /\ ~HasPrefix(content, "#")
                  /\ ~HasPrefix(content, "FROM")

YAMLChunk(e, sourceID) ==
    EvidenceChunk(e.key \o ": " \o TrimSpace(Marshal(e)), sourceID, e.key, YAMLConfidence)

\* Every order in which a Go `for key, value := range doc` over a map can visit
\* the entries: the iteration order of a map is unspecified and differs between runs.
RECURSIVE MapRangeOrders(_)
MapRangeOrders(S) ==
    IF S = {} THEN {<<>>}
    ELSE UNION {{<<e>> \o rest : rest \in MapRangeOrders(S \ {e})} : e \in S}

\* Parse after the document is decoded
YAMLChunksOf(doc, sourceID) ==
    IF doc.err # NilError
    THEN {[chunks |-> <<>>, err |-> Wrap("failed to unmarshal YAML/JSON: ", doc.err)]}
    ELSE {[chunks |-> [i \in 1..Len(order) |-> YAMLChunk(order[i], sourceID)],
           err |-> NilError] :
            order \in MapRangeOrders({doc.entries[i] : i \in 1..Len(doc.entries)})}

YAMLParse(source) == YAMLChunksOf(Unmarshal(source.Content), source.ID)

(***************************************************************************)
(* KubernetesParser                                                        *)
(***************************************************************************)
KubernetesCanHandle(source) ==
    IF ToLower(source.Format) \in {"kubernetes", "k8s"} THEN TRUE
    ELSE Contains(source.Content, "apiVersion:") /\ Contains(source.Content, "kind:")

HasKey(entries, key) == \E i \in 1..Len(entries) : entries[i].key = key
Lookup(entries, key) == entries[CHOOSE i \in 1..Len(entries) : entries[i].key = key]

\* yaml.Unmarshal(content, &manifest) into kubeManifest, given the decoded
\* document: string fields take a scalar, map fields take a mapping, a null or
\* absent field keeps its zero value, unknown fields are ignored.
ManifestString(entries, key) ==
    IF HasKey(entries, key) /\ Lookup(entries, key).kind = "scalar"
    THEN Lookup(entries, key).val ELSE ""

ManifestMap(entries, key) ==
    IF HasKey(entries, key) THEN Lookup(entries, key).sub ELSE <<>>

ManifestOf(doc) ==
    IF doc.err # NilError THEN [err |-> doc.err]
    ELSE IF \/ \E k \in {"apiVersion", "kind"} :
                  HasKey(doc.entries, k) /\ Lookup(doc.entries, k).kind = "map"
            \/ \E k \in {"metadata", "spec"} :
                  HasKey(doc.entries, k) /\ Lookup(doc.entries, k).kind = "scalar"
         THEN [err |-> <<"yaml: cannot unmarshal field of kubeManifest">>]
    ELSE [err |-> NilError,
          APIVersion |-> ManifestString(doc.entries, "apiVersion"),
          Kind |-> ManifestString(doc.entries, "kind"),
          Metadata |-> ManifestMap(doc.entries, "metadata"),
          Spec |-> ManifestMap(doc.entries, "spec")]

UnmarshalManifest(content) == ManifestOf(Unmarshal(content))

securityKeys ==
    <<"securityContext", "containers", "initContainers", "volumes",
      "serviceAccountName", "hostNetwork", "hostPID", "hostIPC", "resources",
      "env", "image">>

RECURSIVE extractSpecLoop(_, _, _, _)
extractSpecLoop(keys, spec, sourceID, resourceRef) ==
    IF keys = <<>> THEN <<>>
    ELSE LET key == Head(keys)
             rest == extractSpecLoop(Tail(keys), spec, sourceID, resourceRef)
         IN  IF ~HasKey(spec, key) THEN rest
             ELSE <<EvidenceChunk(
                      key \o ":\n" \o TrimSpace(Lookup(spec, key).val \o "\n"),
                      sourceID, resourceRef \o " / spec." \o key,
                      SpecKeyConfidence)>> \o rest

extractSpecChunks(spec, sourceID, resourceRef) ==
    extractSpecLoop(securityKeys, spec, sourceID, resourceRef)

\* resourceRef of parseDocument
ResourceRef(manifest, docIndex) ==
    IF HasKey(manifest.Metadata, "name")
    THEN manifest.Kind \o "/" \o Lookup(manifest.Metadata, "name").val
           \o " (doc " \o Itoa(docIndex) \o ")"
    ELSE manifest.Kind \o "/" \o manifest.APIVersion

\* parseDocument after the manifest is decoded
ManifestChunks(manifest, sourceID, resourceRef) ==
    (IF manifest.Kind # ""
     THEN <<EvidenceChunk(
              "kind: " \o manifest.Kind \o "\napiVersion: " \o manifest.APIVersion,
              sourceID, resourceRef \o " / identity", IdentityConfidence)>>
     ELSE <<>>)
    \o extractSpecChunks(manifest.Spec, sourceID, resourceRef)

ParsedManifest(manifest, sourceID, docIndex) ==
    IF manifest.err # NilError
    THEN [chunks |-> <<>>, err |-> Wrap("failed to unmarshal manifest: ", manifest.err)]
    ELSE [chunks |-> ManifestChunks(manifest, sourceID, ResourceRef(manifest, docIndex)),
          err |-> NilError]

parseDocument(content, sourceID, docIndex) ==
    ParsedManifest(UnmarshalManifest(content), sourceID, docIndex)

\* Mutant: a document that fails to decode ends the loop, dropping its siblings.
AppendDocumentAbort(r, rest) == IF r.err # NilError THEN <<>> ELSE r.chunks \o rest

\* The body of the document loop of Parse: a document that fails is skipped.
AppendDocument(r, rest) == IF r.err # NilError THEN rest ELSE r.chunks \o rest

RECURSIVE KubernetesLoop(_, _, _)
KubernetesLoop(docs, i, sourceID) ==
    IF i > Len(docs) THEN <<>>
    ELSE IF TrimSpace(docs[i]) = "" THEN KubernetesLoop(docs, i + 1, sourceID)
    ELSE AppendDocument(parseDocument(TrimSpace(docs[i]), sourceID, i - 1),
                        KubernetesLoop(docs, i + 1, sourceID))

KubernetesParse(source) ==
    {[chunks |-> KubernetesLoop(Split(source.Content, "\n---"), 1, source.ID),
      err |-> NilError]}

(***************************************************************************)
(* DockerfileParser: registered by the tool, its file is not among the     *)
(* sources; taken from the parser contract and the chunking table of the   *)
(* specification (hint "dockerfile" or a leading FROM; line oriented, the  *)
(* instruction keyword as section label).                                  *)
(***************************************************************************)
DockerfileCanHandle(source) ==
    IF EqualFold(source.Format, "dockerfile") THEN TRUE
    ELSE HasPrefix(TrimSpace(source.Content), "FROM")

RECURSIVE DockerfileLoop(_, _)
DockerfileLoop(lines, sourceID) ==
    IF lines = <<>> THEN <<>>
    ELSE LET t == TrimSpace(Head(lines))
             rest == DockerfileLoop(Tail(lines), sourceID)
         IN  IF t = "" \/ HasPrefix(t, "#") THEN rest
             ELSE <<EvidenceChunk(t, sourceID, FirstOfSplit2(t, " "),
                                  DockerfileConfidence)>> \o rest

DockerfileParse(source) ==
    {[chunks |-> DockerfileLoop(Split(source.Content, "\n"), source.ID),
      err |-> NilError]}

(***************************************************************************)
(* The EvidenceParser interface: a parser value is the name of its type.   *)
(***************************************************************************)
ParserTypes == {"KubernetesParser", "DockerfileParser", "MarkdownParser", "YAMLParser"}

Name(parser) ==
    CASE parser = "KubernetesParser" -> "kubernetes"
      [] parser = "DockerfileParser" -> "dockerfile"
      [] parser = "MarkdownParser"   -> "markdown"
      [] parser = "YAMLParser"       -> "yaml"

CanHandle(parser, source) ==
    CASE parser = "KubernetesParser" -> KubernetesCanHandle(source)
      [] parser = "DockerfileParser" -> DockerfileCanHandle(source)
      [] parser = "MarkdownParser"   -> MarkdownCanHandle(source)
      [] parser = "YAMLParser"       -> YAMLCanHandle(source)

\* The outcomes (chunks, err) a call of parser.Parse(ctx, source) can have.
Parse(parser, source) ==
    CASE parser = "KubernetesParser" -> KubernetesParse(source)
      [] parser = "DockerfileParser" -> DockerfileParse(source)
      [] parser = "MarkdownParser"   -> MarkdownParse(source)
      [] parser = "YAMLParser"       -> YAMLParse(source)

(***************************************************************************)
(* SchemaMapper                                                            *)
(***************************************************************************)
fieldRule(keywords, targetField) == [keywords |-> keywords, targetField |-> targetField]

schemaFieldRules == <<
    fieldRule(<<"identifier", "id:", "control id", "policy id">>, "metadata.id"),
    fieldRule(<<"title:", "name:", "policy name", "control name">>, "metadata.title"),
    fieldRule(<<"version:", "revision:">>, "metadata.version"),
    fieldRule(<<"objective", "goal", "purpose", "intent">>, "controls[].objective"),
    fieldRule(<<"control statement", "requirement", "must ", "shall ", "required to">>,
              "controls[].statement"),
    fieldRule(<<"assessment", "verify", "verification", "audit", "check">>,
              "controls[].assessment"),
    fieldRule(<<"implementation", "procedure", "how to", "steps to">>,
              "controls[].implementation"),
    fieldRule(<<"parameter", "setting", "configuration", "config value">>,
              "controls[].parameters[]"),
    fieldRule(<<"reference", "see also", "related", "maps to">>, "metadata.references[]"),
    fieldRule(<<"scope", "applies to", "applicability">>, "metadata.scope"),
    fieldRule(<<"description", "overview", "summary", "background">>, "metadata.description")
>>

RECURSIVE normalizeLines(_)
normalizeLines(lines) ==
    IF lines = <<>> THEN <<>>
    ELSE LET trimmed == TrimSpace(Head(lines))
         IN  (IF trimmed # "" THEN <<trimmed>> ELSE <<>>) \o normalizeLines(Tail(lines))

normalizeValue(text) == Join(normalizeLines(Split(text, "\n")), " ")

SchemaCandidate(targetField, value, sourceRef, confidence) ==
    [TargetField |-> targetField, Value |-> value, SourceRef |-> sourceRef,
     Confidence |-> confidence]

\* The keyword loop of mapChunk for one rule.
RuleMatches(rule, lower) ==
    \E k \in 1..Len(rule.keywords) : Contains(lower, rule.keywords[k])

\* The rule loop of mapChunk from rule r on: the candidate of the first rule that
\* matches, as a sequence of one element, or the empty sequence for nil.
RECURSIVE mapChunkFrom(_, _, _)
mapChunkFrom(r, chunk, lower) ==
    IF r > Len(schemaFieldRules) THEN <<>>
    ELSE IF RuleMatches(schemaFieldRules[r], lower)
         THEN LET combined == (mappingConfidence * chunk.Confidence) \div ConfidenceOne
              IN  <<SchemaCandidate(schemaFieldRules[r].targetField,
                                    normalizeValue(chunk.Text),
                                    chunk.SourceID \o " / " \o chunk.SectionPath,
                                    combined)>>
         ELSE mapChunkFrom(r + 1, chunk, lower)

\* Mutant: the last matching rule of the table decides, not the first.
RECURSIVE mapChunkFromLast(_, _, _)
mapChunkFromLast(r, chunk, lower) ==
    IF r < 1 THEN <<>>
    ELSE IF RuleMatches(schemaFieldRules[r], lower)
         THEN <<SchemaCandidate(schemaFieldRules[r].targetField,
                                normalizeValue(chunk.Text),
                                chunk.SourceID \o " / " \o chunk.SectionPath,
                                (mappingConfidence * chunk.Confidence) \div ConfidenceOne)>>
         ELSE mapChunkFromLast(r - 1, chunk, lower)

mapChunkLastRule(chunk) ==
    mapChunkFromLast(Len(schemaFieldRules), chunk, ToLower(chunk.Text))

\* Mutant: the keywords are matched against the text as written, not lower-cased.
mapChunkCaseSensitive(chunk) == mapChunkFrom(1, chunk, chunk.Text)

\* Mutant: the candidate takes the chunk's confidence unscaled.
mapChunkUnscaled(chunk) ==
    LET c == mapChunkFrom(1, chunk, ToLower(chunk.Text))
    IN  IF c = <<>> THEN <<>>
        ELSE <<[c[1] EXCEPT !.Confidence = chunk.Confidence]>>

mapChunk(chunk) == mapChunkFrom(1, chunk, ToLower(chunk.Text))

\* Mutant: the candidates come out in the reverse order of their chunks.
RECURSIVE MapReversed(_)
MapReversed(chunks) ==
    IF chunks = <<>> THEN <<>>
    ELSE MapReversed(Tail(chunks)) \o mapChunk(Head(chunks))

RECURSIVE Map(_)
Map(chunks) ==
    IF chunks = <<>> THEN <<>>
    ELSE mapChunk(Head(chunks)) \o Map(Tail(chunks))

(***************************************************************************)
(* Pipeline                                                                *)
(***************************************************************************)
NewPipeline(parsers) == [parsers |-> parsers]

EmptyRunResult == [Candidates |-> <<>>, ParserUsed |-> "", ChunkCount |-> 0]

\* selectParser from parser i on. found = 0 stands for the nil parser; probed
\* lists the parsers whose CanHandle was called, in call order.
RECURSIVE selectFrom(_, _, _)
selectFrom(p, i, source) ==
    IF i > Len(p.parsers)
    THEN [found |-> 0, probed |-> <<>>,
          err |-> <<"unsupported evidence format: no parser found for source "
                    \o Quote(source.ID) \o " (format hint: " \o Quote(source.Format)
                    \o ")">>]
    ELSE IF CanHandle(p.parsers[i], source)
         THEN [found |-> i, probed |-> <<p.parsers[i]>>, err |-> NilError]
         ELSE LET rest == selectFrom(p, i + 1, source)
              IN  [rest EXCEPT !.probed = <<p.parsers[i]>> \o @]

\* Mutant: the scan keeps the last parser that claims the source.
selectParserLast(p, source) ==
    LET claim == {i \in 1..Len(p.parsers) : CanHandle(p.parsers[i], source)}
    IN  IF claim = {} THEN selectFrom(p, 1, source)
        ELSE [found |-> CHOOSE i \in claim : \A j \in claim : j <= i,
              probed |-> p.parsers, err |-> NilError]

\* Mutant: when no parser claims the source, the last registered one is used.
selectParserFallback(p, source) ==
    LET sel == selectFrom(p, 1, source)
    IN  IF sel.found = 0 /\ Len(p.parsers) > 0
        THEN [found |-> Len(p.parsers), probed |-> sel.probed, err |-> NilError]
        ELSE sel

selectParser(p, source) == selectFrom(p, 1, source)

\* RunWithMeta after a parser is selected: one outcome for each outcome of Parse.
\* receiver is the Pipeline as the call leaves it: no statement writes a field of p.
RunParser(p, parser, source, probed) ==
    {IF o.err # NilError
     THEN [result |-> EmptyRunResult,
           err |-> Wrap("parser " \o Quote(Name(parser)) \o " failed: ", o.err),
           probed |-> probed, parsed |-> <<parser>>, mapped |-> FALSE,
           chunks |-> <<>>, receiver |-> p]
     ELSE [result |-> [Candidates |-> Map(o.chunks),
                       ParserUsed |-> Name(parser),
                       ChunkCount |-> Len(o.chunks)],
           err |-> NilError,
           probed |-> probed, parsed |-> <<parser>>, mapped |-> TRUE,
           chunks |-> o.chunks, receiver |-> p]
     : o \in Parse(parser, source)}

\* RunWithMeta after selectParser returned sel.
RunSelected(p, source, sel) ==
    IF sel.err # NilError
    THEN {[result |-> EmptyRunResult, err |-> sel.err, probed |-> sel.probed,
           parsed |-> <<>>, mapped |-> FALSE, chunks |-> <<>>, receiver |-> p]}
    ELSE RunParser(p, p.parsers[sel.found], source, sel.probed)

\* Mutant: a parse error is swallowed and the run reports an empty success.
RunWithMetaSwallow(p, source) ==
    {[o EXCEPT !.err = NilError, !.mapped = TRUE,
               !.result = IF o.err # NilError
                          THEN [Candidates |-> <<>>, ParserUsed |-> Name(o.parsed[1]),
                                ChunkCount |-> 0]
                          ELSE o.result]
     : o \in {q \in RunSelected(p, source, selectFrom(p, 1, source)) : q.parsed # <<>>}}
    \cup {q \in RunSelected(p, source, selectFrom(p, 1, source)) : q.parsed = <<>>}

\* Mutant: the run moves the parser it selected to the front of the registered list.
RunWithMetaPromote(p, source) ==
    {[o EXCEPT !.receiver =
          IF o.parsed = <<>> THEN p
          ELSE [p EXCEPT !.parsers =
                    o.parsed \o SelectSeq(p.parsers, LAMBDA t : t # o.parsed[1])]]
     : o \in RunSelected(p, source, selectFrom(p, 1, source))}

\* The outcomes of p.RunWithMeta(ctx, source): the returned (result, err), with the
\* calls it made on parsers and mapper (probed, parsed, mapped), the chunks
\* the parser returned, and the Pipeline after the call (receiver).
RunWithMeta(p, source) == RunSelected(p, source, selectParser(p, source))

RECURSIVE RegisteredParsersFrom(_, _)
RegisteredParsersFrom(p, i) ==
    IF i > Len(p.parsers) THEN <<>>
    ELSE <<Name(p.parsers[i])>> \o RegisteredParsersFrom(p, i + 1)

RegisteredParsers(p) == RegisteredParsersFrom(p, 1)

(***************************************************************************)
(* The parse_governance_document tool                                      *)
(***************************************************************************)
defaultPipeline ==
    NewPipeline(<<"KubernetesParser", "DockerfileParser", "MarkdownParser", "YAMLParser">>)

EmptyOutput == [Candidates |-> <<>>, ParserUsed |-> "", TotalChunks |-> 0]

\* The output and error the tool returns for the outcome r of its pipeline run.
ToolOutcome(r) ==
    [output |-> IF r.err # NilError THEN EmptyOutput
                ELSE [Candidates |-> r.result.Candidates,
                      ParserUsed |-> r.result.ParserUsed,
                      TotalChunks |-> r.result.ChunkCount],
     err |-> r.err, built |-> TRUE,
     probed |-> r.probed, parsed |-> r.parsed, mapped |-> r.mapped, chunks |-> r.chunks]

ToolSource(in) ==
    [Content |-> in.Content, Format |-> in.Format,
     ID |-> IF in.SourceID = "" THEN "unknown" ELSE in.SourceID]

\* Mutant: the tool runs the pipeline without checking the content first.
ParseGovernanceDocumentNoCheck(in) ==
    {ToolOutcome(r) : r \in RunWithMeta(defaultPipeline, ToolSource(in))}

\* The outcomes of ParseGovernanceDocument(ctx, req, in): (output, err), with
\* whether it built a pipeline (built) and the calls its pipeline run made.
ParseGovernanceDocumentOutcomes(in) ==
    IF in.Content = ""
    THEN {[output |-> EmptyOutput, err |-> <<"content is required">>, built |-> FALSE,
           probed |-> <<>>, parsed |-> <<>>, mapped |-> FALSE, chunks |-> <<>>]}
    ELSE {ToolOutcome(r) : r \in RunWithMeta(defaultPipeline, ToolSource(in))}

(***************************************************************************)
(* Inputs. A document is a sequence of blocks joined by newlines: up to    *)
(* MaxBlocks blocks for a call of the tool, up to MaxRunBlocks for a       *)
(* direct call of a Pipeline.                                              *)
(***************************************************************************)
MaxBlocks == 2
MaxRunBlocks == 1

Blocks ==
    {"# Scope\nVerify the goal",
     "Title: Objective",
     "Lorem ipsum",
     "apiVersion: v1\nkind: Pod",
     "---\napiVersion: v1\nkind: Pod",
     "bad: [",
     "FROM a",
     "metadata:\n  name: web",
     "spec:\n  image: nginx\n  replicas: 1"}

\* The blocks of the documents given to a Pipeline directly.
RunBlocks ==
    {"# Scope\nVerify the goal",
     "Title: Objective",
     "Lorem ipsum",
     "apiVersion: v1\nkind: Pod",
     "bad: ["}

RECURSIVE DocumentsOf(_, _)
DocumentsOf(blocks, n) ==
    IF n = 0 THEN {""}
    ELSE IF n = 1 THEN blocks
    ELSE {d \o "\n" \o b : d \in DocumentsOf(blocks, n - 1), b \in blocks}

Contents(blocks, max) == UNION {DocumentsOf(blocks, n) : n \in 0..max}

\* Every alias the parsers accept, in some letter case, no hint, and an unknown hint.
Formats ==
    {"", "pdf", "markdown", "MD", "yaml", "Yml", "JSON", "kubernetes", "K8s", "Dockerfile"}

RunFormats == {"", "pdf", "MD", "Yml", "K8s", "Dockerfile"}

ToolInputs == [Content : Contents(Blocks, MaxBlocks), Format : Formats, ID : {"", "policy.md"}]

Sources == [Content : Contents(RunBlocks, MaxRunBlocks), Format : RunFormats, ID : {"policy.md"}]

\* Lists of distinct parsers, in every order: the arguments of NewPipeline.
RECURSIVE Registrations(_)
Registrations(n) ==
    IF n = 0 THEN {<<>>}
    ELSE Registrations(n - 1) \cup
         UNION {{Append(r, t) : t \in ParserTypes \ {r[i] : i \in 1..Len(r)}} :
                    r \in {q \in Registrations(n - 1) : Len(q) = n - 1}}

(***************************************************************************)
(* State: the Pipeline instance under use, the pending input, and the last *)
(* call made with it (operation, what it returned, the calls it made).     *)
(***************************************************************************)
VARIABLES pipeline, input, call

vars == <<pipeline, input, call>>

NoCall == [op |-> "none"]

\* The input as the tool's InputParseGovernanceDocument.
ToolInput == [Content |-> input.Content, Format |-> input.Format, SourceID |-> input.ID]

(***************************************************************************)
(* The tool: every call builds its own default pipeline.                   *)
(***************************************************************************)
InitTool ==
    /\ pipeline = defaultPipeline
    /\ input \in ToolInputs
    /\ call = NoCall

ParseGovernanceDocument ==
    /\ \E o \in ParseGovernanceDocumentOutcomes(ToolInput) :
          call' = [op |-> "ParseGovernanceDocument", output |-> o.output, err |-> o.err,
                   built |-> o.built, probed |-> o.probed, parsed |-> o.parsed,
                   mapped |-> o.mapped, chunks |-> o.chunks]
    /\ UNCHANGED <<pipeline, input>>

NextTool == ParseGovernanceDocument

SpecTool == InitTool /\ [][NextTool]_vars

(***************************************************************************)
(* A Pipeline built with any registration, called directly.                *)
(***************************************************************************)
Init ==
    /\ pipeline \in {NewPipeline(r) : r \in Registrations(Cardinality(ParserTypes))}
    /\ input \in Sources
    /\ call = NoCall

DoRunWithMeta ==
    /\ \E o \in RunWithMeta(pipeline, input) :
          /\ call' = [op |-> "RunWithMeta", result |-> o.result, err |-> o.err,
                      probed |-> o.probed, parsed |-> o.parsed, mapped |-> o.mapped,
                      chunks |-> o.chunks]
          /\ pipeline' = o.receiver
    /\ UNCHANGED input

\* Pipeline.Run: RunWithMeta, keeping the candidates only.
DoRun ==
    /\ \E o \in RunWithMeta(pipeline, input) :
          /\ call' = [op |-> "Run",
                      candidates |-> IF o.err # NilError THEN <<>> ELSE o.result.Candidates,
                      err |-> o.err,
                      probed |-> o.probed, parsed |-> o.parsed, mapped |-> o.mapped,
                      chunks |-> o.chunks]
          /\ pipeline' = o.receiver
    /\ UNCHANGED input

Next == DoRunWithMeta \/ DoRun

Spec == Init /\ [][Next]_vars

(***************************************************************************)
(* One Pipeline instance reused for a sequence of calls, each with a       *)
(* source of its own. input is the source of the latest call; the call     *)
(* record names it, and the call made before it (previous).                *)
(***************************************************************************)
ReusedPipeline == NewPipeline(<<"KubernetesParser", "MarkdownParser", "YAMLParser">>)

ReuseSources == [Content : RunBlocks, Format : {"", "MD"}, ID : {"policy.md"}]

PreviousCall ==
    IF call.op = "none" THEN NoCall
    ELSE [op |-> call.op, source |-> call.source, err |-> call.err]

InitReuse ==
    /\ pipeline = ReusedPipeline
    /\ input \in ReuseSources
    /\ call = NoCall

ReuseRunWithMeta ==
    \E source \in ReuseSources : \E o \in RunWithMeta(pipeline, source) :
        /\ input' = source
        /\ call' = [op |-> "RunWithMeta", source |-> source, result |-> o.result,
                    err |-> o.err, previous |-> PreviousCall]
        /\ pipeline' = o.receiver

ReuseRun ==
    \E source \in ReuseSources : \E o \in RunWithMeta(pipeline, source) :
        /\ input' = source
        /\ call' = [op |-> "Run", source |-> source,
                    candidates |-> IF o.err # NilError THEN <<>> ELSE o.result.Candidates,
                    err |-> o.err, previous |-> PreviousCall]
        /\ pipeline' = o.receiver

NextReuse == ReuseRunWithMeta \/ ReuseRun

SpecReuse == InitReuse /\ [][NextReuse]_vars

(***************************************************************************)
(* The SchemaMapper called directly on a list of chunks, as its tests do:  *)
(* here input is the []EvidenceChunk argument.                             *)
(***************************************************************************)
MaxChunks == 2

ChunkTexts ==
    {"Title: Objective", "Lorem ipsum", "Verify the goal",
     "kind: Pod\n  apiVersion: v1 "}

TestChunks ==
    {EvidenceChunk(t, "doc.md", sp, c) :
        t \in ChunkTexts, sp \in {"s1", "s2"}, c \in {5000, 8500, 10000}}

RECURSIVE ChunkLists(_)
ChunkLists(n) ==
    IF n = 0 THEN {<<>>}
    ELSE ChunkLists(n - 1) \cup
         {Append(l, c) : l \in {q \in ChunkLists(n - 1) : Len(q) = n - 1},
                         c \in TestChunks}

InitMapper ==
    /\ pipeline = defaultPipeline
    /\ input \in ChunkLists(MaxChunks)
    /\ call = NoCall

\* mapper.Map(chunks); each holds what mapChunk returned for chunk i.
DoMap ==
    /\ call' = [op |-> "Map", candidates |-> Map(input),
                each |-> [i \in 1..Len(input) |-> mapChunk(input[i])]]
    /\ UNCHANGED <<pipeline, input>>

NextMapper == DoMap

SpecMapper == InitMapper /\ [][NextMapper]_vars

(***************************************************************************)
(* The parsers called directly on a source, as their tests do: CanHandle   *)
(* and Parse of each parser type. A CanHandle call records the answer next *)
(* to the answers the other parsers gave for the same source.              *)
(***************************************************************************)
MaxParseBlocks == 3

ParseBlocks ==
    {"# Scope",
     "Verify the goal",
     "apiVersion: v1\nkind: Pod",
     "---\nkind: Pod\nmetadata:\n  name: web\nspec:\n  image: nginx\n  replicas: 1",
     "---\nbad: ["}

ParserSources ==
    [Content : Contents(ParseBlocks, MaxParseBlocks), Format : {"", "yaml"},
     ID : {"policy.md"}]

InitParsers ==
    /\ pipeline = defaultPipeline
    /\ input \in ParserSources
    /\ call = NoCall

\* parser.CanHandle(source)
DoCanHandle(parser) ==
    /\ call' = [op |-> "CanHandle",
                answers |-> (IF call.op = "CanHandle"
                             THEN {a \in call.answers : a[1] # parser} ELSE {})
                            \cup {<<parser, CanHandle(parser, input)>>}]
    /\ UNCHANGED <<pipeline, input>>

\* parser.Parse(ctx, source)
DoParse(parser) ==
    /\ \E o \in Parse(parser, input) :
          call' = [op |-> "Parse", parser |-> parser, chunks |-> o.chunks, err |-> o.err]
    /\ UNCHANGED <<pipeline, input>>

NextParsers == \E parser \in ParserTypes : DoCanHandle(parser) \/ DoParse(parser)

SpecParsers == InitParsers /\ [][NextParsers]_vars

(***************************************************************************)
(* Properties                                                              *)
(***************************************************************************)
IsRun == call.op \in {"Run", "RunWithMeta"}
IsTool == call.op = "ParseGovernanceDocument"
IsMap == call.op = "Map"

\* The positions of the registered parsers that claim the pending input.
Claimers == {i \in 1..Len(pipeline.parsers) : CanHandle(pipeline.parsers[i], input)}
FirstClaimer == CHOOSE i \in Claimers : \A j \in Claimers : i <= j

\* C1: a run uses the earliest-registered parser that claims the source: Parse is
\* invoked on that parser only, and ParserUsed is its name.
C1_FirstRegisteredWins ==
    IsRun /\ Claimers # {} =>
        /\ call.parsed = <<pipeline.parsers[FirstClaimer]>>
        /\ (call.op = "RunWithMeta" /\ call.err = NilError =>
                call.result.ParserUsed = Name(pipeline.parsers[FirstClaimer]))

\* C1 witness: a successful run on a source that two registered parsers claim.
C1_Witness ==
    /\ call.op = "RunWithMeta" /\ call.err = NilError
    /\ Cardinality(Claimers) >= 2
    /\ \A i \in Claimers : pipeline.parsers[i] # "DockerfileParser"
    /\ call.result.ChunkCount > 0
    /\ call.result.ParserUsed = Name(pipeline.parsers[FirstClaimer])

\* The parser a recognized format hint names, "" for no or an unknown hint.
HintParser(format) ==
    CASE ToLower(format) \in {"markdown", "md"}       -> "markdown"
      [] ToLower(format) \in {"yaml", "yml", "json"}  -> "yaml"
      [] ToLower(format) \in {"kubernetes", "k8s"}    -> "kubernetes"
      [] ToLower(format) = "dockerfile"               -> "dockerfile"
      [] OTHER                                        -> ""

\* C2: with non-empty content and a recognized format hint, the tool reports the
\* parser the hint names as parserUsed, whatever the content looks like.
C2_HintDecidesParser ==
    IsTool /\ call.err = NilError /\ HintParser(input.Format) # "" =>
        call.output.ParserUsed = HintParser(input.Format)

\* C3: running the pipeline twice on the same input yields the same candidate
\* list, element by element and in the same order.
C3_RunTwiceSameCandidates ==
    [][IsTool /\ call'.op = "ParseGovernanceDocument" =>
          call'.output.Candidates = call.output.Candidates]_vars

\* The candidates a direct run returned.
RunCandidates == IF call.op = "Run" THEN call.candidates ELSE call.result.Candidates

\* C4: when no registered parser claims the source (or none is registered), Run and
\* RunWithMeta fail with an error that contains "unsupported evidence format" and
\* names the source id and the format hint; no Parse is called, no candidates returned.
C4_UnsupportedFormat ==
    IsRun /\ Claimers = {} =>
        /\ call.err # NilError
        /\ Contains(call.err[1], "unsupported evidence format")
        /\ Contains(call.err[1], Quote(input.ID))
        /\ Contains(call.err[1], Quote(input.Format))
        /\ call.parsed = <<>>
        /\ ~call.mapped
        /\ RunCandidates = <<>>

\* C4 witness: a failed run of a pipeline with parsers registered, none of which
\* claims the source.
C4_Witness ==
    /\ call.op = "RunWithMeta" /\ Claimers = {}
    /\ pipeline.parsers = <<"KubernetesParser", "MarkdownParser", "YAMLParser">>
    /\ input.Format = "pdf" /\ input.Content = "Lorem ipsum"
    /\ call.err # NilError

\* The pending input makes the parser that is selected fail.
SelectedParseFails ==
    /\ Claimers # {}
    /\ \A o \in Parse(pipeline.parsers[FirstClaimer], input) : o.err # NilError

\* C5: when the selected parser's Parse fails, RunWithMeta returns an error that
\* carries the parser's name and wraps the cause, with an empty result; no mapping
\* runs and no later parser is tried.
C5_ParseErrorPropagates ==
    call.op = "RunWithMeta" /\ SelectedParseFails =>
        /\ call.err # NilError
        /\ Contains(call.err[1], Quote(Name(pipeline.parsers[FirstClaimer])))
        /\ \E o \in Parse(pipeline.parsers[FirstClaimer], input) : Tail(call.err) = o.err
        /\ call.result = EmptyRunResult
        /\ ~call.mapped
        /\ call.parsed = <<pipeline.parsers[FirstClaimer]>>

\* C5 witness: the selected parser failed while a later registered parser also
\* claims the source.
C5_Witness ==
    /\ call.op = "RunWithMeta" /\ SelectedParseFails
    /\ Cardinality(Claimers) >= 2
    /\ \A i \in Claimers : pipeline.parsers[i] # "DockerfileParser"
    /\ call.err # NilError

\* C6: the tool rejects empty content with "content is required" before any
\* pipeline work, whatever format hint and source id come with it.
C6_EmptyContentRejected ==
    IsTool /\ input.Content = "" =>
        /\ call.err = <<"content is required">>
        /\ ~call.built
        /\ call.probed = <<>> /\ call.parsed = <<>> /\ ~call.mapped
        /\ call.output = EmptyOutput

\* C6 witness: a rejected call that came with a recognized hint and a source id.
C6_Witness ==
    /\ IsTool /\ input.Content = ""
    /\ input.Format = "yaml" /\ input.ID = "policy.md"
    /\ call.err # NilError

\* The rules of the table with a keyword that occurs in the lower-cased text.
MatchingRules(text) ==
    {r \in 1..Len(schemaFieldRules) :
        \E k \in 1..Len(schemaFieldRules[r].keywords) :
            Contains(ToLower(text), schemaFieldRules[r].keywords[k])}

\* C7: the first rule of the table with a keyword in the lower-cased chunk text
\* decides the target field, and a chunk yields at most one candidate.
C7_FirstRuleWins ==
    IsMap =>
        /\ \A i \in 1..Len(input) :
              /\ Len(call.each[i]) <= 1
              /\ call.each[i] # <<>> =>
                    \E r \in MatchingRules(input[i].Text) :
                        /\ \A q \in MatchingRules(input[i].Text) : r <= q
                        /\ call.each[i][1].TargetField = schemaFieldRules[r].targetField
        /\ Len(call.candidates) <= Len(input)

\* C7 witness: a chunk with "title:" and "objective" in it was mapped to metadata.title.
C7_Witness ==
    /\ IsMap
    /\ \E i \in 1..Len(input) :
          /\ Cardinality(MatchingRules(input[i].Text)) >= 2
          /\ Contains(ToLower(input[i].Text), "title:")
          /\ Contains(ToLower(input[i].Text), "objective")
          /\ call.each[i] # <<>>
          /\ call.each[i][1].TargetField = "metadata.title"

\* C8: a chunk yields a candidate if and only if a keyword of some rule occurs in its
\* lower-cased text; the candidates returned are those of the chunks, and an empty
\* chunk list maps to an empty candidate list.
C8_CandidateIffKeyword ==
    IsMap =>
        /\ \A i \in 1..Len(input) :
              call.each[i] # <<>> <=> MatchingRules(input[i].Text) # {}
        /\ Len(call.candidates) =
              Cardinality({i \in 1..Len(input) : MatchingRules(input[i].Text) # {}})
        /\ (input = <<>> => call.candidates = <<>>)

\* C8 witness: a list with one chunk that matches only through lower-casing and one
\* chunk without any keyword yielded exactly one candidate.
C8_Witness ==
    /\ IsMap /\ Len(input) = 2
    /\ MatchingRules(input[1].Text) # {} /\ MatchingRules(input[2].Text) = {}
    /\ input[1].Text # ToLower(input[1].Text)
    /\ Len(call.candidates) = 1

\* C9: a candidate's confidence is 0.75 times its chunk's confidence, with
\* 0 < candidate <= chunk <= 1; of two chunks with the same text, the one with the
\* higher confidence yields the candidate with the strictly higher confidence.
C9_ConfidenceComposition ==
    IsMap =>
        /\ \A i \in 1..Len(input) :
              call.each[i] # <<>> =>
                 /\ call.each[i][1].Confidence * ConfidenceOne
                        = mappingConfidence * input[i].Confidence
                 /\ 0 < call.each[i][1].Confidence
                 /\ call.each[i][1].Confidence <= input[i].Confidence
                 /\ input[i].Confidence <= ConfidenceOne
        /\ \A i, j \in 1..Len(input) :
              /\ call.each[i] # <<>> /\ call.each[j] # <<>>
              /\ input[i].Text = input[j].Text
              /\ input[i].Confidence > input[j].Confidence
              => call.each[i][1].Confidence > call.each[j][1].Confidence

\* C9 witness: two chunks with the same text and confidences 1.0 and 0.5 were mapped.
C9_Witness ==
    /\ IsMap /\ Len(input) = 2
    /\ input[1].Text = input[2].Text
    /\ input[1].Confidence = ConfidenceOne /\ input[2].Confidence < ConfidenceOne
    /\ Len(call.candidates) = 2
    /\ call.candidates[1].Confidence > call.candidates[2].Confidence

\* C10: in every result each candidate's sourceRef resolves to exactly one chunk of
\* the run: no two chunks of one Parse call share a sectionPath.
C10_SourceRefResolvesToOneChunk ==
    IsTool /\ call.err = NilError =>
        /\ \A i, j \in 1..Len(call.chunks) :
              i # j => call.chunks[i].SectionPath # call.chunks[j].SectionPath
        /\ \A c \in 1..Len(call.output.Candidates) :
              Cardinality({i \in 1..Len(call.chunks) :
                  call.chunks[i].SourceID \o " / " \o call.chunks[i].SectionPath
                      = call.output.Candidates[c].SourceRef}) = 1

IsCanHandle == call.op = "CanHandle"
IsParse == call.op = "Parse"

\* The content parsers that answered CanHandle = true for the pending source.
ContentClaimers ==
    {a[1] : a \in {b \in call.answers : b[2]}}
        \cap {"KubernetesParser", "MarkdownParser", "YAMLParser"}

\* The sniffing rules for structured text and for manifests, as documented.
MarkdownRule(content) ==
    HasPrefix(TrimSpace(content), "#") \/ Contains(TrimSpace(content), "\n#")
ManifestRule(content) == Contains(content, "apiVersion:") /\ Contains(content, "kind:")

\* C11: for a source without a recognized format hint at most one of the
\* kubernetes, markdown and YAML parsers answers CanHandle = true, and the YAML
\* parser never claims content that the markdown rule or the manifest rule claims.
C11_SniffingMutuallyExclusive ==
    IsCanHandle /\ HintParser(input.Format) = "" =>
        /\ Cardinality(ContentClaimers) <= 1
        /\ ("YAMLParser" \in ContentClaimers =>
                ~MarkdownRule(input.Content) /\ ~ManifestRule(input.Content))

RECURSIVE ConcatAll(_)
ConcatAll(seqs) == IF seqs = <<>> THEN <<>> ELSE Head(seqs) \o ConcatAll(Tail(seqs))

\* The documents of the pending manifest stream, and what each contributes: the
\* chunks of document i (numbered from 1) when it is non-empty and decodes.
StreamDocuments == Split(input.Content, "\n---")
Decodes(i) ==
    /\ TrimSpace(StreamDocuments[i]) # ""
    /\ parseDocument(TrimSpace(StreamDocuments[i]), input.ID, i - 1).err = NilError
Contribution(i) ==
    IF Decodes(i)
    THEN parseDocument(TrimSpace(StreamDocuments[i]), input.ID, i - 1).chunks
    ELSE <<>>

\* C12: KubernetesParser.Parse never returns an error; a document of the stream
\* that fails to decode contributes nothing and the chunks of every other document
\* are returned, in document order.
C12_FailedDocumentSkipped ==
    IsParse /\ call.parser = "KubernetesParser" =>
        /\ call.err = NilError
        /\ call.chunks =
              ConcatAll([i \in 1..Len(StreamDocuments) |-> Contribution(i)])

\* C12 witness: a stream whose middle document fails to decode, parsed into the
\* chunks of the document before it followed by those of the document after it.
C12_Witness ==
    /\ IsParse /\ call.parser = "KubernetesParser"
    /\ Len(StreamDocuments) = 3
    /\ Decodes(1) /\ Contribution(1) # <<>>
    /\ TrimSpace(StreamDocuments[2]) # "" /\ ~Decodes(2)
    /\ Decodes(3) /\ Contribution(3) # <<>>
    /\ call.chunks = Contribution(1) \o Contribution(3)
    /\ call.chunks[1] # call.chunks[Len(call.chunks)]

\* The lines of the pending document, its heading lines, and its sections: section 0
\* is the text before the first heading, section i the text that follows heading
\* line i up to the next heading line.
DocLines == Split(input.Content, "\n")
HeadingLines == {i \in 1..Len(DocLines) : HasPrefix(DocLines[i], "#")}
SectionEnd(s) ==
    IF \E h \in HeadingLines : h > s
    THEN (CHOOSE h \in HeadingLines : h > s /\ \A g \in HeadingLines : g > s => h <= g) - 1
    ELSE Len(DocLines)
SectionBody(s) == TrimSpace(Join(SubSeq(DocLines, s + 1, SectionEnd(s)), "\n"))
HeadingText(s) == TrimSpace(TrimLeft(DocLines[s], "#"))
SectionLabel(s) == IF s = 0 \/ HeadingText(s) = "" THEN "preamble" ELSE HeadingText(s)
HasPreamble == SectionBody(0) # ""
TextSections == {s \in {0} \cup HeadingLines : SectionBody(s) # ""}
HeadedSections == HeadingLines \cup (IF HasPreamble THEN {0} ELSE {})

\* C13: MarkdownParser.Parse starts a chunk at each heading line, in document order,
\* labelled with the stripped heading text, and puts non-blank text before the first
\* heading in a chunk labelled "preamble": n heading lines yield n chunks, or n+1
\* with a preamble, each with confidence 0.85.
C13_ChunkPerHeading ==
    IsParse /\ call.parser = "MarkdownParser" =>
        /\ call.err = NilError
        /\ Len(call.chunks) = Cardinality(HeadedSections)
        /\ \A s \in HeadedSections :
              LET c == call.chunks[Cardinality({t \in HeadedSections : t <= s})]
              IN  c.SectionPath = SectionLabel(s) /\ c.Confidence = MarkdownConfidence

\* C13 as amended: one chunk for each section whose text is non-blank, in document
\* order, holding the trimmed text of the section, labelled with the stripped heading
\* text ("preamble" before the first heading or when that text is empty), with
\* confidence 0.85; n heading lines yield at most n chunks, or n+1 with a preamble.
C13_ChunkPerTextSection ==
    IsParse /\ call.parser = "MarkdownParser" =>
        /\ call.err = NilError
        /\ Len(call.chunks) = Cardinality(TextSections)
        /\ Len(call.chunks) <= Cardinality(HeadedSections)
        /\ \A s \in TextSections :
              call.chunks[Cardinality({t \in TextSections : t <= s})]
                 = EvidenceChunk(SectionBody(s), input.ID, SectionLabel(s),
                                 MarkdownConfidence)

\* C13 witness: two heading lines, the first without text under it, were parsed
\* into the one chunk of the second.
C13_Witness ==
    /\ IsParse /\ call.parser = "MarkdownParser"
    /\ Cardinality(HeadingLines) = 2
    /\ TextSections \subseteq HeadingLines /\ Cardinality(TextSections) = 1
    /\ Len(call.chunks) = 1
    /\ call.chunks[1].SectionPath = "Scope"
    /\ call.chunks[1].Text = "Verify the goal"

\* The manifest of document i of the pending stream, the documents that decode, the
\* name its metadata gives ("" for none) and the security-relevant keys of its spec.
DocManifest(i) == UnmarshalManifest(TrimSpace(StreamDocuments[i]))
DecodedDocs == {i \in 1..Len(StreamDocuments) : Decodes(i)}
DocName(i) ==
    IF HasKey(DocManifest(i).Metadata, "name")
    THEN Lookup(DocManifest(i).Metadata, "name").val ELSE ""
DocRef(i) == DocManifest(i).Kind \o "/" \o DocName(i) \o " (doc " \o Itoa(i - 1) \o ")"
PresentKeys(i) ==
    {securityKeys[k] : k \in {q \in 1..Len(securityKeys) :
                                 HasKey(DocManifest(i).Spec, securityKeys[q])}}
ChunksAt(path, confidence) ==
    {j \in 1..Len(call.chunks) :
        call.chunks[j].SectionPath = path /\ call.chunks[j].Confidence = confidence}

\* C14: for every non-empty document that decodes, KubernetesParser emits exactly one
\* identity chunk (confidence 0.90, sectionPath "<kind>/<name> (doc <index>) / identity")
\* followed by exactly one chunk (confidence 0.88, sectionPath ending in "spec.<key>")
\* for each security-relevant key at the top level of spec, and no other chunk.
C14_IdentityThenSpecKeys ==
    IsParse /\ call.parser = "KubernetesParser" =>
        /\ \A i \in DecodedDocs :
              /\ Cardinality(ChunksAt(DocRef(i) \o " / identity", IdentityConfidence)) = 1
              /\ \A key \in PresentKeys(i) :
                    /\ Cardinality(ChunksAt(DocRef(i) \o " / spec." \o key,
                                            SpecKeyConfidence)) = 1
                    /\ \A j \in ChunksAt(DocRef(i) \o " / spec." \o key, SpecKeyConfidence) :
                          \A k \in ChunksAt(DocRef(i) \o " / identity", IdentityConfidence) :
                              k < j
        /\ Len(call.chunks) =
              Cardinality(DecodedDocs)
                + Cardinality({<<i, key>> \in DecodedDocs \X {securityKeys[k] :
                                   k \in 1..Len(securityKeys)} : key \in PresentKeys(i)})

\* The confidence values each parser assigns.
ParserConfidences(parser) ==
    CASE parser = "MarkdownParser"   -> {MarkdownConfidence}
      [] parser = "YAMLParser"       -> {YAMLConfidence}
      [] parser = "KubernetesParser" -> {IdentityConfidence, SpecKeyConfidence}
      [] parser = "DockerfileParser" -> {DockerfileConfidence}

\* C15: every chunk a parser returns has a non-empty text without leading or trailing
\* whitespace, the sourceID of the source and the parser's fixed confidence in (0,1];
\* empty content yields no chunks and no error.
C15_ChunksWellFormed ==
    IsParse =>
        /\ \A j \in 1..Len(call.chunks) :
              /\ call.chunks[j].Text # ""
              /\ TrimSpace(call.chunks[j].Text) = call.chunks[j].Text
              /\ call.chunks[j].SourceID = input.ID
              /\ call.chunks[j].Confidence \in ParserConfidences(call.parser)
              /\ 0 < call.chunks[j].Confidence
              /\ call.chunks[j].Confidence <= ConfidenceOne
        /\ (input.Content = "" => call.chunks = <<>> /\ call.err = NilError)

\* C16: a run retains no state: after any sequence of Run / RunWithMeta calls on one
\* Pipeline, failed or not, the registered parser list is what it was built with, in
\* the same order, and each call returns what a call on that source returns on the
\* pipeline as built, whatever calls came before.
C16_NoStateRetained ==
    /\ pipeline.parsers = ReusedPipeline.parsers
    /\ RegisteredParsers(pipeline) = <<"kubernetes", "markdown", "yaml">>
    /\ (IsRun =>
          \E o \in RunWithMeta(ReusedPipeline, call.source) :
              /\ call.err = o.err
              /\ RunCandidates = (IF o.err # NilError THEN <<>> ELSE o.result.Candidates)
              /\ (call.op = "RunWithMeta" => call.result = o.result))

\* C16 witness: a call the markdown parser served, made after a failed call on
\* another source, and followed by nothing else: the second call of a reused pipeline.
C16_Witness ==
    /\ call.op = "RunWithMeta" /\ call.err = NilError
    /\ call.result.ParserUsed = "markdown"
    /\ call.previous.op = "Run"
    /\ call.previous.err # NilError
    /\ call.previous.source # call.source

\* The candidate is the one the chunk gives: its locator, its normalized text, its
\* confidence scaled by the mapping factor.
DerivedFrom(candidate, chunk) ==
    /\ candidate.SourceRef = chunk.SourceID \o " / " \o chunk.SectionPath
    /\ candidate.Value = normalizeValue(chunk.Text)
    /\ candidate.Confidence * ConfidenceOne = mappingConfidence * chunk.Confidence

\* C17: in a successful run totalChunks is the number of chunks the selected parser
\* returned, there are at most that many candidates, parserUsed names a registered
\* parser, and the candidates follow the order of the chunks they derive from.
C17_ResultConsistent ==
    IsTool /\ call.err = NilError =>
        /\ call.output.TotalChunks = Len(call.chunks)
        /\ Len(call.output.Candidates) <= call.output.TotalChunks
        /\ \E i \in 1..Len(pipeline.parsers) :
              RegisteredParsers(pipeline)[i] = call.output.ParserUsed
        /\ call.parsed # <<>> /\ Name(call.parsed[1]) = call.output.ParserUsed
        /\ \E f \in [1..Len(call.output.Candidates) -> 1..Len(call.chunks)] :
              /\ \A a, b \in DOMAIN f : a < b => f[a] < f[b]
              /\ \A a \in DOMAIN f :
                    DerivedFrom(call.output.Candidates[a], call.chunks[f[a]])

\* C17 witness: a successful run whose two chunks gave two different candidates.
C17_Witness ==
    /\ IsTool /\ call.err = NilError
    /\ call.output.TotalChunks = 2
    /\ Len(call.output.Candidates) = 2
    /\ call.output.Candidates[1] # call.output.Candidates[2]
    /\ call.parsed # <<"DockerfileParser">>
====
